---- MODULE Spec2Model ----
(***************************************************************************)
(* dir_to_graph: build_tree_json and get_folder_size of                    *)
(* src/dir_to_graph/core.py, as a state machine over a small filesystem.   *)
(* A path is a sequence of segments; an absolute path starts with "/".     *)
(* The filesystem holds plain files and directories (no symbolic links);   *)
(* a file may be unreadable (stat raises OSError) and a directory          *)
(* unlistable (scandir raises OSError).                                    *)
(***************************************************************************)
EXTENDS Integers, Sequences, FiniteSets, TLC

\* ---------------------------------------------------------------- bounds
MaxFaults == 1      \* entries that are unreadable / unlistable at any time
MaxClock  == 3      \* largest value of time.monotonic() explored
MaxBudget == 1      \* largest positive max_seconds explored

\* ------------------------------------------------------- python values
None    == -1       \* Python None (sizes, clock values and deadlines are >= 0)
Missing == -2       \* key absent from a node's attribute dict (core.py:173)

\* ---------------------------------------------------------- filesystem
Cwd  == <<"/", "w">>
PA   == <<"/", "w", "A">>
Pa   == <<"/", "w", "A", "a.txt">>
PB   == <<"/", "w", "A", "B">>
Pb   == <<"/", "w", "A", "B", "b.txt">>
PBB  == <<"/", "w", "A", "B", "B">>
PBBa == <<"/", "w", "A", "B", "B", "a.txt">>

DirPaths  == {PA, PB, PBB}
FilePaths == {Pa, Pb, PBBa}
Universe  == DirPaths \cup FilePaths

\* st_size of each regular file
FileSize == (Pa :> 4) @@ (Pb :> 6) @@ (PBBa :> 1)

\* the order in which scandir reports the entries of a directory
ScanOrder == (PA :> <<"a.txt", "B">>) @@ (PB :> <<"b.txt", "B">>) @@ (PBB :> <<"a.txt">>)

\* the sets of entries that may be missing from the filesystem
Shapes == { {PBB, PBBa}, {PBBa}, {} }

\* ------------------------------------------------------- path helpers
RECURSIVE SelectSeqNot(_, _)
SelectSeqNot(s, x) ==
    IF s = <<>> THEN <<>>
    ELSE IF Head(s) = x THEN SelectSeqNot(Tail(s), x)
         ELSE <<Head(s)>> \o SelectSeqNot(Tail(s), x)

\* os.path.join(root, name) for a plain name
join(p, name) == Append(p, name)

\* os.path.basename
basename(p) == p[Len(p)]

\* os.path.dirname
dirname(p) == SubSeq(p, 1, Len(p) - 1)

\* os.path.abspath: prepend the working directory to a relative path, then
\* normalise away the "." segments
abspath(p) ==
    LET full == IF p # <<>> /\ Head(p) = "/" THEN p ELSE Cwd \o p
    IN  <<"/">> \o SelectSeqNot(Tail(full), ".")

IsPrefix(p, q) == Len(p) <= Len(q) /\ SubSeq(q, 1, Len(p)) = p

\* ------------------------------------------------------------- inputs
DEFAULT_IGNORES == <<".git", ".venv", "venv", "bin", "__pycache__", ".ipynb_checkpoints">>

Range(s) == { s[i] : i \in DOMAIN s }

\* the ignore argument: None, a single string, or a list of strings
IgnoreArgs ==
    { [kind |-> "none", val |-> <<>>],
      [kind |-> "str",  val |-> <<"B">>],
      [kind |-> "list", val |-> <<"a.txt", "A">>],
      [kind |-> "list", val |-> <<"B", "a.txt">>] }

normalize_ignores(ignore) ==
    IF ignore.kind = "none" THEN Range(DEFAULT_IGNORES)
    ELSE IF ignore.kind = "str" THEN {ignore.val[1]}
    ELSE Range(ignore.val)

PathArgs == { <<".", "A">>, PA }

BudgetArgs == {None} \cup (0..MaxBudget)

\* ------------------------------------------------------------- state
VARIABLES
    fs,               \* the filesystem: status of every entry of Universe
    pc,               \* position of the one thread of control
    dir_of_interest,  \* build_tree_json: the (reassigned) path argument
    ignore_set,       \* build_tree_json: ignore_set
    deadline,         \* build_tree_json: deadline (None when unlimited)
    now,              \* the value time.monotonic() returns
    g,                \* build_tree_json: the DiGraph [node, succ]
    walk,             \* pending directories of the main os.walk generator
    subdir,           \* loop variable of line 123
    dirs,             \* subdirectories of subdir still to be handled (line 140)
    files,            \* files of subdir still to be handled (line 153)
    gfs,              \* the frame of the running get_folder_size call
    log,              \* the [WARNING] diagnostics printed so far
    opened,           \* directories handed to scandir so far, and by which walk
    size_log,         \* the get_folder_size calls that have returned
    tree,             \* the value build_tree_json returned
    prev,             \* the value the previous build returned
    touched           \* whether the filesystem changed since the first build began

vars == <<fs, pc, dir_of_interest, ignore_set, deadline, now, g, walk, subdir,
          dirs, files, gfs, log, opened, size_log, tree, prev, touched>>

build_vars == <<dir_of_interest, ignore_set, deadline, g, walk, subdir, dirs, files,
                gfs, log, opened, size_log, tree>>

\* ----------------------------------------------------- filesystem calls
Faults(f) == Cardinality({ e \in Universe : f[e] \in {"gone", "denied"} })

\* the status the operating system finds at a path
Stat(f, p) == IF abspath(p) \in Universe THEN f[abspath(p)] ELSE "absent"

\* os.path.isfile
isfile(f, p) == abspath(p) \in FilePaths /\ Stat(f, p) = "ok"

\* os.path.getsize succeeds
CanGetSize(f, p) == Stat(f, p) = "ok"

\* os.scandir raises OSError
ScandirFails(f, p) == Stat(f, p) # "ok" \/ abspath(p) \notin DirPaths

RECURSIVE Select(_, _, _, _)
Select(f, p, names, wantDir) ==
    IF names = <<>> THEN <<>>
    ELSE LET n    == Head(names)
             q    == abspath(join(p, n))
             keep == Stat(f, q) # "absent" /\ ((q \in DirPaths) = wantDir)
         IN  (IF keep THEN <<n>> ELSE <<>>) \o Select(f, p, Tail(names), wantDir)

\* the (dirs, nondirs) pair os.walk yields for a directory it could scan
ListDirs(f, p)  == Select(f, p, ScanOrder[abspath(p)], TRUE)
ListFiles(f, p) == Select(f, p, ScanOrder[abspath(p)], FALSE)

\* faulty variant of FilterDirs: the in-place filter is dropped
FilterDirs_keep(ds, ign) == ds

\* core.py:125  dirs[:] = [d for d in dirs if d not in ignore_set]
RECURSIVE FilterDirs(_, _)
FilterDirs(ds, ign) ==
    IF ds = <<>> THEN <<>>
    ELSE (IF Head(ds) \notin ign THEN <<Head(ds)>> ELSE <<>>) \o FilterDirs(Tail(ds), ign)

\* the paths os.walk pushes for the subdirectories left in dirs
JoinAll(p, names) == [ i \in 1..Len(names) |-> join(p, names[i]) ]

\* faulty variant of SizeWalkDirs: the size walk does not descend
SizeWalkDirs_flat(f, p) == <<>>

\* core.py:28  os.walk(path) inside get_folder_size: the dirs list is left as scanned
SizeWalkDirs(f, p) == ListDirs(f, p)

\* core.py:29,32  deadline is not None and time.monotonic() > deadline
deadline_exceeded(dl, t) == dl # None /\ t > dl

\* core.py:29  the check made for each directory the inner walk yields
DirCheck(dl, t) == deadline_exceeded(dl, t)

\* faulty variant of FileCheck: the per-file check is missing
FileCheck_never(dl, t) == FALSE

\* core.py:32  the check made for each file of that directory
FileCheck(dl, t) == deadline_exceeded(dl, t)

\* faulty variant of AbortValue: the sum so far is returned
AbortValue_partial(total) == total

\* core.py:30,33  the value returned when a check finds the deadline passed
AbortValue(total) == None

\* core.py:116-119
compute_deadline(max_seconds, t) ==
    IF max_seconds # None /\ max_seconds > 0 THEN t + max_seconds ELSE None

\* --------------------------------------------------------- the DiGraph
EmptyGraph == [node |-> <<>>, succ |-> <<>>]

has_node(G, n) == n \in DOMAIN G.node

add_node(G, n, attrs) ==
    [node |-> (n :> attrs) @@ G.node,
     succ |-> IF n \in DOMAIN G.succ THEN G.succ ELSE (n :> <<>>) @@ G.succ]

add_edge(G, u, v) ==
    LET G1 == IF has_node(G, u) THEN G ELSE add_node(G, u, [type |-> "", name |-> "", size_bytes |-> Missing])
        G2 == IF has_node(G1, v) THEN G1 ELSE add_node(G1, v, [type |-> "", name |-> "", size_bytes |-> Missing])
    IN  IF v \in Range(G2.succ[u]) THEN G2
        ELSE [G2 EXCEPT !.succ[u] = Append(@, v)]

\* faulty variant of NodeId: nodes are keyed by base name
NodeId_name(p) == <<basename(p)>>

\* core.py:127,141,154  the id under which an entry is stored in the graph
NodeId(p) == abspath(p)

NumEdges(G) ==
    LET RECURSIVE Sum(_)
        Sum(S) == IF S = {} THEN 0
                  ELSE LET n == CHOOSE x \in S : TRUE IN Len(G.succ[n]) + Sum(S \ {n})
    IN  Sum(DOMAIN G.succ)

Neighbours(G, n) ==
    Range(G.succ[n]) \cup { m \in DOMAIN G.succ : n \in Range(G.succ[m]) }

RECURSIVE Component(_, _)
Component(G, S) ==
    LET T == S \cup UNION { Neighbours(G, n) : n \in S }
    IN  IF T = S THEN S ELSE Component(G, T)

\* what json_graph.tree_data accepts: |V| = |E| + 1 and weakly connected
IsTree(G, root) ==
    /\ Cardinality(DOMAIN G.node) = NumEdges(G) + 1
    /\ Component(G, {root}) = DOMAIN G.node

NoTree  == [id |-> <<>>, type |-> "none", name |-> "", size_bytes |-> Missing, children |-> <<>>]
ErrTree == [id |-> <<>>, type |-> "TypeError", name |-> "", size_bytes |-> Missing, children |-> <<>>]

RECURSIVE add_children(_, _)
add_children(G, n) ==
    [ i \in 1..Len(G.succ[n]) |->
        LET c == G.succ[n][i]
        IN  [id |-> c, type |-> G.node[c].type, name |-> G.node[c].name,
             size_bytes |-> G.node[c].size_bytes, children |-> add_children(G, c)] ]

\* core.py:176  json_graph.tree_data(g, root=root_id)
tree_data(G, root) ==
    IF ~IsTree(G, root) THEN ErrTree
    ELSE [id |-> root, type |-> G.node[root].type, name |-> G.node[root].name,
          size_bytes |-> G.node[root].size_bytes, children |-> add_children(G, root)]

\* --------------------------------------------------------------- Init
Statuses == {"ok", "gone", "denied", "absent"}

WellFormed(f) ==
    /\ { e \in Universe : f[e] = "absent" } \in Shapes
    /\ \A e \in DirPaths  : f[e] # "gone"
    /\ \A e \in FilePaths : f[e] # "denied"
    /\ Faults(f) <= MaxFaults

NoFrame == [path |-> <<>>, ret |-> "", late |-> FALSE, unreadable |-> {},
            stack |-> <<>>, root |-> <<>>,
            files |-> <<>>, total |-> 0, overran |-> FALSE, counted |-> {}]

Fresh ==
    /\ dir_of_interest = <<>>
    /\ ignore_set = {}
    /\ deadline = None
    /\ g = EmptyGraph
    /\ walk = <<>>
    /\ subdir = <<>>
    /\ dirs = <<>>
    /\ files = <<>>
    /\ gfs = NoFrame
    /\ log = {}
    /\ opened = {}
    /\ size_log = {}
    /\ tree = NoTree

Init ==
    /\ fs \in { f \in [Universe -> Statuses] : WellFormed(f) }
    /\ pc = "idle"
    /\ now = 0
    /\ prev = NoTree
    /\ touched = FALSE
    /\ Fresh

\* ------------------------------------------------- build_tree_json
\* core.py:96-121  entry: abspath, ignore set, deadline, empty graph; os.walk starts
Enter(path, ign, max_seconds) ==
    /\ dir_of_interest' = abspath(path)
    /\ ignore_set' = ign
    /\ deadline' = compute_deadline(max_seconds, now)
    /\ g' = EmptyGraph
    /\ walk' = <<abspath(path)>>
    /\ subdir' = <<>>
    /\ dirs' = <<>>
    /\ files' = <<>>
    /\ gfs' = NoFrame
    /\ log' = {}
    /\ opened' = {}
    /\ size_log' = {}
    /\ tree' = NoTree
    /\ pc' = "walk"

build_tree_json ==
    /\ pc = "idle"
    /\ \E path \in PathArgs, ignore \in IgnoreArgs, max_seconds \in BudgetArgs :
          Enter(path, normalize_ignores(ignore), max_seconds)
    /\ UNCHANGED <<fs, now, prev, touched>>

\* core.py:123  os.walk could not scan the next directory: it is skipped silently
WalkSkip ==
    /\ pc = "walk" /\ walk # <<>>
    /\ ScandirFails(fs, Head(walk))
    /\ walk' = Tail(walk)
    /\ opened' = opened \cup {[path |-> Head(walk), by |-> "walk"]}
    /\ UNCHANGED <<fs, pc, dir_of_interest, ignore_set, deadline, now, g, subdir, dirs,
                   files, gfs, log, size_log, tree, prev, touched>>

\* core.py:123-125  os.walk yields the next directory; its dirs are filtered in place,
\* and the generator will descend into what is left of them
WalkYield ==
    /\ pc = "walk" /\ walk # <<>>
    /\ ~ScandirFails(fs, Head(walk))
    /\ LET top  == Head(walk)
           kept == FilterDirs(ListDirs(fs, top), ignore_set)
       IN  /\ subdir' = top
           /\ dirs' = kept
           /\ files' = ListFiles(fs, top)
           /\ walk' = JoinAll(top, kept) \o Tail(walk)
           /\ opened' = opened \cup {[path |-> top, by |-> "walk"]}
    /\ pc' = "parent"
    /\ UNCHANGED <<fs, dir_of_interest, ignore_set, deadline, now, g, gfs, log,
                   size_log, tree, prev, touched>>

\* core.py:123,170  the generator is exhausted
WalkDone ==
    /\ pc = "walk" /\ walk = <<>>
    /\ pc' = "finish"
    /\ UNCHANGED <<fs, dir_of_interest, ignore_set, deadline, now, g, walk, subdir, dirs,
                   files, gfs, log, opened, size_log, tree, prev, touched>>

\* core.py:20,27-28  get_folder_size(path, deadline) is entered
Call(path, ret) ==
    /\ gfs' = [path |-> path, ret |-> ret, late |-> deadline_exceeded(deadline, now),
               unreadable |-> { f \in FilePaths : fs[f] = "gone" },
               stack |-> <<path>>, root |-> <<>>, files |-> <<>>, total |-> 0,
               overran |-> FALSE, counted |-> {}]
    /\ pc' = "s_walk"

FolderAttrs(name, size) == [type |-> "folder", name |-> name, size_bytes |-> size]
FileAttrs(name, size)   == [type |-> "file", name |-> name, size_bytes |-> size]

\* core.py:127-131  parent_path; its node is added unless the graph has it
ParentNode ==
    /\ pc = "parent"
    /\ IF has_node(g, NodeId(subdir))
       THEN pc' = "dirs" /\ UNCHANGED gfs
       ELSE Call(abspath(subdir), "parent")
    /\ UNCHANGED <<fs, dir_of_interest, ignore_set, deadline, now, g, walk, subdir, dirs,
                   files, log, opened, size_log, tree, prev, touched>>

\* core.py:140-150  next subdirectory: sized and added unless the graph has it
ChildDir ==
    /\ pc = "dirs" /\ dirs # <<>>
    /\ LET child_path == abspath(join(subdir, Head(dirs)))
       IN  IF has_node(g, NodeId(child_path))
           THEN /\ g' = add_edge(g, NodeId(subdir), NodeId(child_path))
                /\ dirs' = Tail(dirs)
                /\ UNCHANGED <<pc, gfs>>
           ELSE /\ Call(child_path, "child")
                /\ UNCHANGED <<g, dirs>>
    /\ UNCHANGED <<fs, dir_of_interest, ignore_set, deadline, now, walk, subdir,
                   files, log, opened, size_log, tree, prev, touched>>

\* core.py:140,153  the subdirectory loop ends
DirsDone ==
    /\ pc = "dirs" /\ dirs = <<>>
    /\ pc' = "files"
    /\ UNCHANGED <<fs, dir_of_interest, ignore_set, deadline, now, g, walk, subdir, dirs,
                   files, gfs, log, opened, size_log, tree, prev, touched>>

\* core.py:157-159  what the except branch leaves in size
LeafSizeOnError == None

\* faulty variant of AddLeaf: a file whose size is unknown is left out
AddLeaf_skip(G, parent, full_path, name, size) ==
    IF size = None THEN G
    ELSE add_edge(add_node(G, abspath(full_path), [type |-> "file", name |-> name, size_bytes |-> size]),
                  parent, abspath(full_path))

\* core.py:161-168  the file's node and edge, whatever its size
AddLeaf(G, parent, full_path, name, size) ==
    add_edge(IF has_node(G, NodeId(full_path)) THEN G
             ELSE add_node(G, NodeId(full_path), FileAttrs(name, size)),
             parent, NodeId(full_path))

\* core.py:153-168  next file: its size is read and it is added as a child
FileNode ==
    /\ pc = "files" /\ files # <<>>
    /\ LET file_name == Head(files)
           full_path == abspath(join(subdir, file_name))
           readable  == CanGetSize(fs, full_path)
           size      == IF readable THEN FileSize[full_path] ELSE LeafSizeOnError
       IN  /\ log' = IF readable THEN log ELSE log \cup {[path |-> full_path, at |-> "leaf"]}
           /\ g' = AddLeaf(g, NodeId(subdir), full_path, file_name, size)
    /\ files' = Tail(files)
    /\ UNCHANGED <<fs, pc, dir_of_interest, ignore_set, deadline, now, walk, subdir, dirs,
                   gfs, opened, size_log, tree, prev, touched>>

\* core.py:153,123  the file loop ends; control returns to the generator
FilesDone ==
    /\ pc = "files" /\ files = <<>>
    /\ pc' = "walk"
    /\ UNCHANGED <<fs, dir_of_interest, ignore_set, deadline, now, g, walk, subdir, dirs,
                   files, gfs, log, opened, size_log, tree, prev, touched>>

\* core.py:170-177  defensive root node, conversion to the tree, return
Finish ==
    /\ pc = "finish"
    /\ LET root_id == abspath(dir_of_interest)
           g1 == IF has_node(g, root_id) THEN g
                 ELSE add_node(g, root_id, FolderAttrs(basename(root_id), Missing))
       IN  /\ g' = g1
           /\ tree' = tree_data(g1, root_id)
    /\ pc' = "done"
    /\ UNCHANGED <<fs, dir_of_interest, ignore_set, deadline, now, walk, subdir, dirs,
                   files, gfs, log, opened, size_log, prev, touched>>

\* ------------------------------------------------- get_folder_size
\* core.py:30,33,42 and 131-137, 143-150: the call returns and its caller stores the
\* size in the new folder node (and, for a subdirectory, adds the edge)
Return(val, aborted) ==
    /\ size_log' = size_log \cup
          {[path |-> gfs.path, late |-> gfs.late, unreadable |-> gfs.unreadable,
            result |-> val, aborted |-> aborted,
            finished |-> (gfs.stack = <<>> /\ gfs.files = <<>>),
            overran |-> gfs.overran,
            counted |-> gfs.counted]}
    /\ gfs' = NoFrame
    /\ pc' = "dirs"
    /\ IF gfs.ret = "parent"
       THEN /\ g' = add_node(g, NodeId(gfs.path), FolderAttrs(basename(gfs.path), val))
            /\ UNCHANGED dirs
       ELSE /\ g' = add_edge(add_node(g, NodeId(gfs.path), FolderAttrs(Head(dirs), val)),
                             NodeId(subdir), NodeId(gfs.path))
            /\ dirs' = Tail(dirs)

\* core.py:28  the inner os.walk could not scan a directory: it is skipped silently
SizeSkip ==
    /\ pc = "s_walk" /\ gfs.stack # <<>>
    /\ ScandirFails(fs, Head(gfs.stack))
    /\ gfs' = [gfs EXCEPT !.stack = Tail(@)]
    /\ opened' = opened \cup {[path |-> Head(gfs.stack), by |-> "size"]}
    /\ UNCHANGED <<fs, pc, dir_of_interest, ignore_set, deadline, now, g, walk, subdir,
                   dirs, files, log, size_log, tree, prev, touched>>

\* core.py:28-30  the inner os.walk yields a directory; the deadline is checked
SizeYield ==
    /\ pc = "s_walk" /\ gfs.stack # <<>>
    /\ ~ScandirFails(fs, Head(gfs.stack))
    /\ opened' = opened \cup {[path |-> Head(gfs.stack), by |-> "size"]}
    /\ LET top == Head(gfs.stack)
           f1  == [gfs EXCEPT !.stack = JoinAll(top, SizeWalkDirs(fs, top)) \o Tail(@),
                              !.root = top,
                              !.files = ListFiles(fs, top)]
       IN  IF DirCheck(deadline, now)
           THEN /\ Return(AbortValue(gfs.total), TRUE)
                /\ UNCHANGED <<log>>
           ELSE /\ gfs' = [f1 EXCEPT !.overran = @ \/ deadline_exceeded(deadline, now)]
                /\ pc' = "s_files"
                /\ UNCHANGED <<g, dirs, log, size_log>>
    /\ UNCHANGED <<fs, dir_of_interest, ignore_set, deadline, now, walk, subdir,
                   files, tree, prev, touched>>

\* core.py:31-35  next file of the yielded directory: deadline check, then isfile
SizeIsFile ==
    /\ pc = "s_files" /\ gfs.files # <<>>
    /\ LET full_path == join(gfs.root, Head(gfs.files))
       IN  IF FileCheck(deadline, now)
           THEN Return(AbortValue(gfs.total), TRUE)
           ELSE /\ IF isfile(fs, full_path)
                   THEN /\ pc' = "s_getsize"
                        /\ gfs' = [gfs EXCEPT !.overran = @ \/ deadline_exceeded(deadline, now)]
                   ELSE /\ pc' = pc
                        /\ gfs' = [gfs EXCEPT !.overran = @ \/ deadline_exceeded(deadline, now),
                                              !.files = Tail(@)]
                /\ UNCHANGED <<g, dirs, size_log>>
    /\ UNCHANGED <<fs, dir_of_interest, ignore_set, deadline, now, walk, subdir,
                   files, log, opened, tree, prev, touched>>

\* core.py:36-41  getsize of a path isfile accepted: added, or warned about and skipped
SizeGetSize ==
    /\ pc = "s_getsize"
    /\ LET full_path == join(gfs.root, Head(gfs.files))
       IN  IF CanGetSize(fs, full_path)
           THEN /\ gfs' = [gfs EXCEPT !.total = @ + FileSize[abspath(full_path)],
                                      !.counted = @ \cup {abspath(full_path)},
                                      !.files = Tail(@)]
                /\ UNCHANGED log
           ELSE /\ gfs' = [gfs EXCEPT !.files = Tail(@)]
                /\ log' = log \cup {[path |-> full_path, at |-> "size"]}
    /\ pc' = "s_files"
    /\ UNCHANGED <<fs, dir_of_interest, ignore_set, deadline, now, g, walk, subdir, dirs,
                   files, opened, size_log, tree, prev, touched>>

\* core.py:31,28  the file loop of the yielded directory ends
SizeFilesDone ==
    /\ pc = "s_files" /\ gfs.files = <<>>
    /\ pc' = "s_walk"
    /\ UNCHANGED <<fs, dir_of_interest, ignore_set, deadline, now, g, walk, subdir, dirs,
                   files, gfs, log, opened, size_log, tree, prev, touched>>

\* core.py:42  the inner walk is exhausted: return total
SizeReturn ==
    /\ pc = "s_walk" /\ gfs.stack = <<>>
    /\ Return(gfs.total, FALSE)
    /\ UNCHANGED <<fs, dir_of_interest, ignore_set, deadline, now, walk, subdir,
                   files, log, opened, tree, prev, touched>>

\* ------------------------------------------------------- environment
Running == pc \notin {"idle", "done"}

\* the monotonic clock advances
Tick ==
    /\ Running
    /\ now < MaxClock
    /\ now' = now + 1
    /\ UNCHANGED <<fs, pc, prev, touched>>
    /\ UNCHANGED build_vars

\* the file the next step of the build is about to stat
NextRead ==
    IF pc \in {"s_files", "s_getsize"} /\ gfs.files # <<>>
    THEN {abspath(join(gfs.root, Head(gfs.files)))}
    ELSE IF pc = "files" /\ files # <<>>
    THEN {abspath(join(subdir, Head(files)))}
    ELSE {}

\* a file becomes unreadable while the build runs. Only the stat calls of the build
\* observe it, so the change is taken just before the next stat of that file.
Break ==
    /\ Running
    /\ Faults(fs) = 0
    /\ \E f \in NextRead :
          /\ fs[f] = "ok"
          /\ fs' = [fs EXCEPT ![f] = "gone"]
    /\ touched' = TRUE
    /\ UNCHANGED <<pc, now, prev>>
    /\ UNCHANGED build_vars

\* a second build of the same directory in the same process
Rebuild ==
    /\ pc = "done"
    /\ prev = NoTree
    /\ prev' = tree
    /\ \E path \in PathArgs, max_seconds \in BudgetArgs :
          Enter(path, ignore_set, max_seconds)
    /\ UNCHANGED <<fs, now, touched>>

Next ==
    \/ build_tree_json
    \/ WalkSkip \/ WalkYield \/ WalkDone
    \/ ParentNode \/ ChildDir \/ DirsDone \/ FileNode \/ FilesDone \/ Finish
    \/ SizeSkip \/ SizeYield \/ SizeIsFile \/ SizeGetSize \/ SizeFilesDone \/ SizeReturn
    \/ Tick \/ Break

Spec == Init /\ [][Next]_vars

NextTwice == Next \/ Rebuild

SpecTwice == Init /\ [][NextTwice]_vars

\* ------------------------------------------------ reading the result
RECURSIVE Flatten(_), FlattenAll(_)
Flatten(t) ==
    <<[id |-> t.id, type |-> t.type, name |-> t.name, size_bytes |-> t.size_bytes,
       kids |-> [ i \in 1..Len(t.children) |-> t.children[i].id ]]>>
    \o FlattenAll(t.children)
FlattenAll(ts) ==
    IF ts = <<>> THEN <<>> ELSE Flatten(Head(ts)) \o FlattenAll(Tail(ts))

TreeNodes(t) == Range(Flatten(t))
TreeIds(t)   == { n.id : n \in TreeNodes(t) }
NodeOf(t, e) == CHOOSE n \in TreeNodes(t) : n.id = e

\* the tree with every folder's size blanked
RECURSIVE Skeleton(_)
Skeleton(t) ==
    [id |-> t.id, type |-> t.type, name |-> t.name,
     size_bytes |-> IF t.type = "folder" THEN 0 ELSE t.size_bytes,
     children |-> [ i \in 1..Len(t.children) |-> Skeleton(t.children[i]) ]]

Returned == pc = "done"

Present(e) == fs[e] # "absent"

\* the directories on the way from the root down to e: below the root, e included
ChainBelowRoot(e) ==
    { SubSeq(e, 1, k) : k \in (Len(PA) + 1)..Len(e) } \cap DirPaths

\* the directories strictly above e, the root included
Above(e) == { SubSeq(e, 1, k) : k \in Len(PA)..(Len(e) - 1) }

NoIgnoredOnChain(e) == \A d \in ChainBelowRoot(e) : basename(d) \notin ignore_set

AboveListable(e) == \A d \in Above(e) : fs[d] = "ok"

RECURSIVE SumSizes(_)
SumSizes(S) ==
    IF S = {} THEN 0
    ELSE LET f == CHOOSE x \in S : TRUE IN FileSize[f] + SumSizes(S \ {f})

FilesBeneath(d) == { f \in FilePaths : Present(f) /\ IsPrefix(d, f) }

AllReadableBeneath(d) ==
    \A e \in Universe : Present(e) /\ IsPrefix(d, e) => fs[e] = "ok"

ScenarioFs ==
    (PA :> "ok") @@ (Pa :> "ok") @@ (PB :> "ok") @@ (Pb :> "ok")
    @@ (PBB :> "absent") @@ (PBBa :> "absent")

\* ------------------------------------------------------------ claims

\* C1: files beneath an ignored directory are counted in no folder's size: for
\* A{a.txt 4, B{b.txt 6}} built with ignore set {B} and no deadline, no size sums a
\* file under B, the root has size_bytes 4 and the single child a.txt, and B and
\* b.txt are absent.
C1_IgnoredNotCounted ==
    (Returned /\ fs = ScenarioFs /\ ~touched /\ ignore_set = {"B"} /\ deadline = None)
        => /\ \A c \in size_log : Pb \notin c.counted
           /\ tree.id = PA
           /\ tree.size_bytes = 4
           /\ Len(tree.children) = 1
           /\ tree.children[1].id = Pa
           /\ TreeIds(tree) = {PA, Pa}

\* C2: with a deadline set, every get_folder_size call made after the clock passed
\* the deadline returns None, whatever the folder.
C2_LateCallsAbsent ==
    \A c \in size_log : c.late => c.result = None

\* C3: no directory whose base name is in the ignore set is ever handed to scandir,
\* by the main walk or by a size sub-walk (the root itself is walked whatever its name).
C3_IgnoredNeverOpened ==
    \A o \in opened : o.path = dir_of_interest \/ basename(o.path) \notin ignore_set

\* C4 as stated: an entry under the root is a node of the returned tree exactly when
\* no directory on its chain below the root has an ignored base name.
C4_NodeIffNotIgnored ==
    Returned =>
        \A e \in Universe : Present(e) => ((e \in TreeIds(tree)) <=> NoIgnoredOnChain(e))

\* C4 amended: an entry under the root is a node of the returned tree exactly when no
\* directory on its chain below the root has an ignored base name and every directory
\* strictly above it, the root included, could be listed.
C4_NodeIffReached ==
    Returned =>
        \A e \in Universe :
            Present(e) =>
                ((e \in TreeIds(tree)) <=> (NoIgnoredOnChain(e) /\ AboveListable(e)))

\* C4 witness: the ignore set {B, a.txt} prunes B with all it holds and keeps the file a.txt.
C4_Witness ==
    /\ Returned
    /\ ignore_set = {"B", "a.txt"}
    /\ fs[PBBa] = "ok"
    /\ TreeIds(tree) = {PA, Pa}

\* C5: a folder all of whose descendants are readable never reports a wrong size, and
\* when the deadline never expired it reports exactly the sum of the sizes of all
\* files transitively beneath it on the filesystem.
C5_SizeAdditivity ==
    Returned =>
        \A n \in TreeNodes(tree) :
            (n.type = "folder" /\ AllReadableBeneath(n.id)) =>
                /\ n.size_bytes \in {None, SumSizes(FilesBeneath(n.id))}
                /\ ~deadline_exceeded(deadline, now) =>
                       n.size_bytes = SumSizes(FilesBeneath(n.id))

\* C5 witness: the full tree, all readable: the root reports 11 and B reports 7.
C5_Witness ==
    /\ Returned
    /\ \A e \in Universe : fs[e] = "ok"
    /\ Len(tree.children) = 2
    /\ tree.size_bytes = 11
    /\ NodeOf(tree, PB).size_bytes = 7

\* C6: the returned tree has no two nodes with the same id; every node's id is the
\* absolute path of one filesystem entry of its kind and its name that entry's base
\* name, every entry the walk reached has a node, and the root's id is the absolute
\* form of the path supplied.
C6_UniqueIds ==
    Returned =>
        LET ns == Flatten(tree)
        IN  /\ tree.type = "folder"
            /\ tree.id = PA
            /\ \A i, j \in 1..Len(ns) : ns[i].id = ns[j].id => i = j
            /\ \A i \in 1..Len(ns) :
                  /\ ns[i].id \in Universe
                  /\ Present(ns[i].id)
                  /\ ns[i].name = basename(ns[i].id)
                  /\ (ns[i].type = "folder") <=> (ns[i].id \in DirPaths)
                  /\ (ns[i].type = "file") <=> (ns[i].id \in FilePaths)
            /\ \A e \in Universe :
                  (Present(e) /\ NoIgnoredOnChain(e) /\ AboveListable(e))
                      => e \in TreeIds(tree)

\* C6 witness: a tree in which a.txt and B each occur at two places.
C6_Witness ==
    /\ Returned
    /\ {Pa, PBBa, PB, PBB} \subseteq TreeIds(tree)
    /\ NodeOf(tree, Pa).name = NodeOf(tree, PBBa).name
    /\ NodeOf(tree, PB).name = NodeOf(tree, PBB).name

\* the files whose size could not be read when their leaf was created
LeafFailed == { w.path : w \in { x \in log : x.at = "leaf" } }

\* C7 as stated: a file whose size cannot be read is omitted from its parent's
\* children, with a diagnostic, the parent's sum excluding it, and a tree returned.
C7_UnreadableOmitted ==
    Returned =>
        \A f \in LeafFailed :
            /\ tree.type = "folder"
            /\ f \notin TreeIds(tree)
            /\ \A c \in size_log : f \in c.unreadable => f \notin c.counted

\* C7 amended: a file whose size cannot be read when its leaf is created is kept as a
\* child of its parent with size_bytes None, a diagnostic is printed for it, no folder
\* size whose computation began while it was already unreadable counts it (such a size
\* is the sum of the other files when those are all readable), and a tree is returned.
C7_UnreadableKept ==
    Returned =>
        /\ tree.type = "folder"
        /\ \A f \in FilePaths :
              (fs[f] = "gone" /\ NoIgnoredOnChain(f) /\ AboveListable(f)) =>
                  /\ f \in LeafFailed
                  /\ f \in TreeIds(tree)
                  /\ NodeOf(tree, f).type = "file"
                  /\ NodeOf(tree, f).size_bytes = None
                  /\ f \in Range(NodeOf(tree, dirname(f)).kids)
                  /\ \A c \in size_log : f \in c.unreadable => f \notin c.counted
                  /\ \A c \in size_log :
                        (c.result # None /\ f \in c.unreadable /\ IsPrefix(c.path, f)
                         /\ \A h \in FilesBeneath(c.path) \ {f} : fs[h] = "ok"
                         /\ \A d \in DirPaths : fs[d] # "denied")
                            => c.result = SumSizes(FilesBeneath(c.path) \ {f})

\* C7 witness: b.txt unreadable from the start: kept with size None, excluded from B's and A's sums.
C7_Witness ==
    /\ Returned
    /\ ~touched
    /\ fs[Pb] = "gone"
    /\ Pb \in LeafFailed
    /\ NodeOf(tree, Pb).size_bytes = None
    /\ NodeOf(tree, PB).size_bytes = 0
    /\ tree.size_bytes = 4

\* C8: an unlistable subdirectory is kept as a folder node with size_bytes None and no
\* children, and a diagnostic is printed for it.
C8_UnlistableAbsentSize ==
    Returned =>
        \A d \in DirPaths \ {PA} :
            (fs[d] = "denied" /\ d \in TreeIds(tree)) =>
                /\ NodeOf(tree, d).type = "folder"
                /\ NodeOf(tree, d).kids = <<>>
                /\ NodeOf(tree, d).size_bytes = None
                /\ \E w \in log : abspath(w.path) = d

\* C9: get_folder_size returns None whenever one of its checks finds the deadline
\* passed, whatever it has summed; it returns a number only after the whole sub-walk
\* finished, and no directory or file was taken up after the deadline had passed.
C9_NoPartialSum ==
    /\ ~gfs.overran
    /\ \A c \in size_log :
          /\ c.aborted => c.result = None
          /\ c.result # None => (c.finished /\ ~c.aborted /\ ~c.overran)

\* C9 witness: a call aborted by a check after it had already summed a file.
C9_Witness ==
    \E c \in size_log : c.aborted /\ c.counted # {} /\ c.result = None /\ ~c.finished

\* C10: two builds of the same unchanged filesystem with the same ignore set, under
\* any two budgets, return trees equal in nodes, edges, child order, kinds, names and
\* file sizes; a folder's two sizes are equal unless one of them is None.
C10_BudgetOnlyDegradesSizes ==
    (Returned /\ prev # NoTree /\ ~touched) =>
        /\ Skeleton(prev) = Skeleton(tree)
        /\ LET a == Flatten(prev)
               b == Flatten(tree)
           IN  /\ Len(a) = Len(b)
               /\ \A i \in 1..Len(a) :
                     \/ a[i].size_bytes = b[i].size_bytes
                     \/ a[i].size_bytes = None
                     \/ b[i].size_bytes = None

\* C10 witness: the first build lost B's size to the deadline, the second build reports it.
C10_Witness ==
    /\ Returned /\ prev # NoTree /\ ~touched
    /\ prev.size_bytes = 11
    /\ tree.size_bytes = 11
    /\ Len(tree.children) = 2
    /\ NodeOf(prev, PB).size_bytes = None
    /\ NodeOf(tree, PB).size_bytes = 7

====
